---- MODULE Spec2Model ----
(***************************************************************************)
(* file2minio: uploading local files to a MinIO bucket.                    *)
(*                                                                         *)
(* The model covers MinIOFileUploader (src/config/file_uploader.py) and    *)
(* the command line driver (src/main.py).  Paths are sequences of segment  *)
(* names, the file system is a set of regular files under a fixed set of   *)
(* directories, and the MinIO client is an environment whose calls either  *)
(* succeed, raise S3Error, or raise some other exception (a transport      *)
(* failure raised by the HTTP layer below the client).                     *)
(***************************************************************************)
EXTENDS Integers, Sequences, FiniteSets, TLC

VARIABLES
    files,        \* the regular files that exist on the local file system
    bucket,       \* TRUE when the configured bucket exists on the server
    pc,           \* position of the running program
    sess,         \* "lib": methods called directly, "cli": one run of main.py
    gwPrev,       \* the gateway call before the most recent one
    gwLast,       \* the most recent gateway call, [op, res]
    ensurePrev,   \* outcome of the ensure_bucket_exists call before the last one
    ensureLast,   \* outcome of the last completed ensure_bucket_exists call
    ensureCalls,  \* number of ensure_bucket_exists calls started
    mappings,     \* file_mappings of the running / last upload_files_batch call
    idx,          \* 1-based position of the for loop in mappings
    results,      \* the results dict of upload_files_batch
    attempts,     \* upload_file calls of the running / last batch, in order
    putCount,     \* fput_object calls issued since the last upload call started
    walked,       \* TRUE when the last upload_directory call enumerated the tree
    call,         \* the running / last upload call: [op, path, base]
    raised,       \* TRUE when that call ended by raising instead of returning
    args,         \* the parsed command line of a run of main.py
    uploader,     \* main's MinIOFileUploader: "none", "ok", or "failed" to construct
    exitCode      \* exit status of the run: -1 while running

vars == <<files, bucket, pc, sess, gwPrev, gwLast, ensurePrev,
          ensureLast, ensureCalls, mappings, idx, results, attempts, putCount,
          walked, call, raised, args, uploader, exitCode>>

-----------------------------------------------------------------------------
(* Bounds of the model *)

\* longest file_mappings list handed to upload_files_batch directly
MaxItems == 3
\* longest --files list on the command line
MaxFiles == 2

-----------------------------------------------------------------------------
(* The local file system *)

\* a command line flag that was not given (None or the empty string), and
\* the path argument of a call that takes none
Absent == <<>>

Dirs == { <<"d">>, <<"d", "s">>, <<"d", "s", "t">>, <<"e">> }

\* files that may or may not exist under d
OptionalFiles == { <<"d", "f1">>, <<"d", "s", "f2">>, <<"d", "s", "t", "f3">> }

\* g is a readable regular file, u a regular file the process cannot read
FixedFiles == { <<"g">>, <<"u">> }

Unreadable == { <<"u">> }

\* m never exists
Missing == <<"m">>

IsPrefix(p, q) == Len(p) <= Len(q) /\ SubSeq(q, 1, Len(p)) = p

\* os.path.isdir
isdir(p) == p \in Dirs

\* os.path.exists
exists(fs, p) == p \in fs \/ p \in Dirs

\* an arbitrary but fixed listing order of a set of directory entries
RECURSIVE SetToSeq(_)
SetToSeq(S) ==
    IF S = {} THEN <<>>
    ELSE LET x == CHOOSE y \in S : TRUE
         IN  <<x>> \o SetToSeq(S \ {x})

\* the non-directory entries of directory p, as os.walk lists them
listfiles(fs, p) == SetToSeq({ f \in fs : Len(f) = Len(p) + 1 /\ IsPrefix(p, f) })

\* the sub-directories of directory p
listdirs(p) == SetToSeq({ d \in Dirs : Len(d) = Len(p) + 1 /\ IsPrefix(p, d) })

\* os.path.relpath(local_path, directory_path) for a path below directory_path
relpath(local, start) == SubSeq(local, Len(start) + 1, Len(local))

\* a value Python treats as true: not None, not the empty string or list
Truthy(x) == x # Absent

-----------------------------------------------------------------------------
(* The MinIO client, as MinIOFileUploader uses it *)

\* what bucket_exists can answer when the bucket's existence is b
BucketExistsOutcomes(b) == { IF b THEN "true" ELSE "false", "S3Error", "Error" }

\* what make_bucket can answer: it creates the bucket only when there is none
MakeBucketOutcomes(b) == (IF b THEN {} ELSE {"ok"}) \cup {"S3Error", "Error"}

\* what fput_object can answer: it stores the object only in an existing bucket
PutOutcomes(b) == (IF b THEN {"ok"} ELSE {}) \cup {"S3Error", "Error"}

\* what generate_minio_object_key and get_file_size can do
HelperOutcomes == {"ok", "raise"}

\* what went wrong, if anything, in one upload_file call: the first of the
\* failure causes the call meets
FailureMode(fs, local, keyOut, sizeOut, putOut) ==
    CASE ~(local \in fs /\ local \notin Unreadable) -> "invalid"
      [] keyOut = "raise"                             -> "key"
      [] sizeOut = "raise"                            -> "size"
      [] OTHER                                        -> putOut

NoCall == [op |-> "none", res |-> "none"]

-----------------------------------------------------------------------------
(* MinIOFileUploader *)

\* utils.validate_file_path: the path is an existing, readable regular file
validate_file_path(fs, p) == p \in fs /\ p \notin Unreadable

\* ensure_bucket_exists calling make_bucket whatever bucket_exists answered
ensure_after_exists_always_make(e) ==
    CASE e \in {"false", "true"} -> "make"
      [] e = "S3Error"           -> "false"
      [] OTHER                   -> "raised"

\* ensure_bucket_exists after bucket_exists answered e: what it does next
ensure_after_exists(e) ==
    CASE e = "false"   -> "make"
      [] e = "true"    -> "true"
      [] e = "S3Error" -> "false"
      [] OTHER         -> "raised"

\* ensure_bucket_exists after make_bucket answered m: how it ends
ensure_after_make(m) ==
    CASE m = "ok"      -> "true"
      [] m = "S3Error" -> "false"
      [] OTHER         -> "raised"

\* upload_file without its "except Exception" clause: only S3Error is caught
upload_file_only_s3error(fs, local, keyOut, sizeOut, putOut) ==
    IF ~validate_file_path(fs, local)
    THEN [ret |-> FALSE, put |-> FALSE, thrown |-> FALSE, gw |-> "none"]
    ELSE IF keyOut = "raise" \/ sizeOut = "raise"
    THEN [ret |-> FALSE, put |-> FALSE, thrown |-> TRUE, gw |-> "none"]
    ELSE [ret |-> (putOut = "ok"), put |-> TRUE, thrown |-> (putOut = "Error"),
          gw |-> putOut]

\* upload_file without the validate_file_path check
upload_file_unvalidated(fs, local, keyOut, sizeOut, putOut) ==
    IF keyOut = "raise" \/ sizeOut = "raise"
    THEN [ret |-> FALSE, put |-> FALSE, thrown |-> FALSE, gw |-> "none"]
    ELSE [ret |-> (putOut = "ok"), put |-> TRUE, thrown |-> FALSE, gw |-> putOut]

\* upload_file(local, relative) given what the helpers and fput_object do:
\* ret is the value returned, put tells whether fput_object was called,
\* thrown whether an exception left the method
upload_file(fs, local, keyOut, sizeOut, putOut) ==
    IF ~validate_file_path(fs, local)
    THEN [ret |-> FALSE, put |-> FALSE, thrown |-> FALSE, gw |-> "none"]
    ELSE IF keyOut = "raise" \/ sizeOut = "raise"
    THEN [ret |-> FALSE, put |-> FALSE, thrown |-> FALSE, gw |-> "none"]
    ELSE [ret |-> (putOut = "ok"), put |-> TRUE, thrown |-> FALSE, gw |-> putOut]

ZeroResults == [total |-> 0, success |-> 0, failed |-> 0, failed_files |-> <<>>]

\* the results dict upload_files_batch starts from
initial_results(file_mappings) ==
    [total |-> Len(file_mappings), success |-> 0, failed |-> 0,
     failed_files |-> <<>>]

\* the loop body with failed_files.insert(0, ...) in place of append
record_outcome_prepend(r, item, ok) ==
    IF ok
    THEN [r EXCEPT !.success = @ + 1]
    ELSE [r EXCEPT !.failed = @ + 1, !.failed_files = <<item>> \o @]

\* one turn of the for loop of upload_files_batch on results r
record_outcome(r, item, ok) ==
    IF ok
    THEN [r EXCEPT !.success = @ + 1]
    ELSE [r EXCEPT !.failed = @ + 1, !.failed_files = Append(@, item)]

\* a listing of the top directory only, as os.listdir would give
walk_top_only(fs, p) == listfiles(fs, p)

\* the (root, dirs, files) walk of os.walk, top down: the files of p, then
\* those of each sub-directory
RECURSIVE walk(_, _)
walk(fs, p) ==
    LET subs == listdirs(p)
        below[i \in 0..Len(subs)] ==
            IF i = 0 THEN <<>> ELSE below[i - 1] \o walk(fs, subs[i])
    IN  listfiles(fs, p) \o below[Len(subs)]

\* os.path.join(base_relative_path, rel_path).replace('\\', '/')
join(base, rel) == base \o rel

\* the (local_path, rel_path) pair upload_directory builds for a walked file
directory_mapping(local, directory_path, base_relative_path) ==
    LET rel == relpath(local, directory_path)
    IN  <<local, IF Truthy(base_relative_path)
                 THEN join(base_relative_path, rel) ELSE rel>>

\* file_mappings of upload_directory
directory_mappings(fs, directory_path, base_relative_path) ==
    LET found == walk(fs, directory_path)
    IN  [i \in 1..Len(found) |->
            directory_mapping(found[i], directory_path, base_relative_path)]


-----------------------------------------------------------------------------
(* Inputs the methods are called with *)

\* the (local_path, relative_path) mappings handed to upload_files_batch: a
\* readable file under two relative paths, an unreadable file, a missing one
Items == { << <<"g">>, <<"x">> >>, << <<"g">>, <<"y">> >>,
           << <<"u">>, <<"x">> >>, << Missing, <<"y">> >> }

RECURSIVE SeqsUpTo(_, _)
SeqsUpTo(S, n) ==
    IF n = 0 THEN { <<>> }
    ELSE LET shorter == SeqsUpTo(S, n - 1)
         IN  shorter \cup { Append(q, x) : q \in { r \in shorter : Len(r) = n - 1 }, x \in S }

BatchInputs == SeqsUpTo(Items, MaxItems)

\* directory_path arguments: directories, a regular file, a missing path
DirInputs == { <<"d">>, <<"d", "s">>, <<"e">>, <<"g">>, Missing }

BaseInputs == { <<>>, <<"b">> }

-----------------------------------------------------------------------------
(* Steps of the uploader's methods *)

\* where control goes when an uploader method returns / raises
RetPc(after) == IF sess = "lib" THEN "idle" ELSE after
RaisePc == IF sess = "lib" THEN "idle" ELSE "main_except"

Log(op, res) ==
    /\ gwPrev' = gwLast
    /\ gwLast' = [op |-> op, res |-> res]

EnsureDone(ret, made) ==
    /\ ensurePrev' = ensureLast
    /\ ensureLast' = [ret |-> ret, made |-> made]
    /\ pc' = IF ret = "raised" THEN RaisePc ELSE RetPc("main_ensured")

\* ensure_bucket_exists up to and including its bucket_exists call
EnsureCheck ==
    /\ pc = IF sess = "lib" THEN "idle" ELSE "main_ensure"
    /\ ensureCalls' = IF sess = "cli" THEN ensureCalls + 1 ELSE ensureCalls
    /\ \E e \in BucketExistsOutcomes(bucket) :
          /\ Log("bucket_exists", e)
          /\ IF ensure_after_exists(e) = "make"
             THEN /\ pc' = "ensure_make"
                  /\ UNCHANGED <<ensurePrev, ensureLast>>
             ELSE EnsureDone(ensure_after_exists(e), FALSE)
    /\ UNCHANGED <<files, bucket, sess, mappings, idx, results, attempts,
                   putCount, walked, call, raised, args, uploader, exitCode>>

\* the make_bucket call of ensure_bucket_exists and its return
EnsureMake ==
    /\ pc = "ensure_make"
    /\ \E m \in MakeBucketOutcomes(bucket) :
          /\ Log("make_bucket", m)
          /\ bucket' = (bucket \/ m = "ok")
          /\ EnsureDone(ensure_after_make(m), TRUE)
    /\ UNCHANGED <<files, sess, ensureCalls, mappings, idx, results,
                   attempts, putCount, walked, call, raised, args, uploader, exitCode>>

\* another client creates the bucket
EnvCreateBucket ==
    /\ ~bucket
    /\ exitCode = -1
    /\ bucket' = TRUE
    /\ UNCHANGED <<files, pc, sess, gwPrev, gwLast, ensurePrev,
                   ensureLast, ensureCalls, mappings, idx, results, attempts,
                   putCount, walked, call, raised, args, uploader, exitCode>>

\* upload_files_batch up to its for loop
StartBatch(file_mappings, c) ==
    /\ mappings' = file_mappings
    /\ idx' = 1
    /\ results' = initial_results(file_mappings)
    /\ attempts' = <<>>
    /\ putCount' = 0
    /\ call' = c
    /\ raised' = FALSE
    /\ pc' = "batch"

\* the for loop with a break after the first failed item
BatchIterBreaksOnFailure ==
    /\ pc = "batch"
    /\ idx <= Len(mappings)
    /\ \E keyOut \in HelperOutcomes, sizeOut \in HelperOutcomes,
          putOut \in PutOutcomes(bucket) :
          LET item == mappings[idx]
              r    == upload_file(files, item[1], keyOut, sizeOut, putOut)
          IN  /\ attempts' = Append(attempts,
                                    [item |-> item, ret |-> r.ret, put |-> r.put,
                                     thrown |-> r.thrown,
                                     mode |-> FailureMode(files, item[1], keyOut,
                                                          sizeOut, putOut)])
              /\ putCount' = IF r.put THEN putCount + 1 ELSE putCount
              /\ IF r.put THEN Log("fput_object", r.gw)
                          ELSE UNCHANGED <<gwPrev, gwLast>>
              /\ results' = record_outcome(results, item, r.ret)
              /\ idx' = IF r.ret THEN idx + 1 ELSE Len(mappings) + 1
              /\ UNCHANGED <<raised, pc>>
    /\ UNCHANGED <<files, bucket, sess, ensurePrev, ensureLast,
                   ensureCalls, mappings, walked, call, args, uploader, exitCode>>

\* one turn of the for loop of upload_files_batch
BatchIter ==
    /\ pc = "batch"
    /\ idx <= Len(mappings)
    /\ \E keyOut \in HelperOutcomes, sizeOut \in HelperOutcomes,
          putOut \in PutOutcomes(bucket) :
          LET item == mappings[idx]
              r    == upload_file(files, item[1], keyOut, sizeOut, putOut)
          IN  /\ attempts' = Append(attempts,
                                    [item |-> item, ret |-> r.ret, put |-> r.put,
                                     thrown |-> r.thrown,
                                     mode |-> FailureMode(files, item[1], keyOut,
                                                          sizeOut, putOut)])
              /\ putCount' = IF r.put THEN putCount + 1 ELSE putCount
              /\ IF r.put THEN Log("fput_object", r.gw)
                          ELSE UNCHANGED <<gwPrev, gwLast>>
              /\ IF r.thrown
                 THEN /\ raised' = TRUE
                      /\ pc' = RaisePc
                      /\ UNCHANGED <<idx, results>>
                 ELSE /\ results' = record_outcome(results, item, r.ret)
                      /\ idx' = idx + 1
                      /\ UNCHANGED <<raised, pc>>
    /\ UNCHANGED <<files, bucket, sess, ensurePrev, ensureLast,
                   ensureCalls, mappings, walked, call, args, uploader, exitCode>>

\* the end of upload_files_batch: the loop is over, results is returned
BatchReturn ==
    /\ pc = "batch"
    /\ idx > Len(mappings)
    /\ pc' = RetPc("main_report")
    /\ UNCHANGED <<files, bucket, sess, gwPrev, gwLast, ensurePrev,
                   ensureLast, ensureCalls, mappings, idx, results, attempts,
                   putCount, walked, call, raised, args, uploader, exitCode>>

\* upload_directory without its os.path.isdir check
upload_directory_unchecked(directory_path, base_relative_path) ==
    /\ StartBatch(directory_mappings(files, directory_path, base_relative_path),
                  [op |-> "directory", path |-> directory_path,
                   base |-> base_relative_path])
    /\ walked' = TRUE

\* upload_directory(directory_path, base_relative_path)
upload_directory(directory_path, base_relative_path) ==
    LET c == [op |-> "directory", path |-> directory_path,
              base |-> base_relative_path]
    IN  IF ~isdir(directory_path)
        THEN /\ results' = ZeroResults
             /\ mappings' = <<>>
             /\ idx' = 1
             /\ attempts' = <<>>
             /\ putCount' = 0
             /\ call' = c
             /\ raised' = FALSE
             /\ walked' = FALSE
             /\ pc' = RetPc("main_report")
        ELSE /\ StartBatch(directory_mappings(files, directory_path,
                                              base_relative_path), c)
             /\ walked' = TRUE

-----------------------------------------------------------------------------
(* The methods called directly *)

NoArgs == [noargs |-> TRUE, mode |-> "single", file |-> Absent, relative |-> Absent,
           directory |-> Absent, base_relative |-> Absent, files |-> Absent]

NoCallYet == [op |-> "none", path |-> Absent, base |-> Absent]
NoEnsure == [ret |-> "none", made |-> FALSE]

InitCommon ==
    /\ files \in { FixedFiles \cup F : F \in SUBSET OptionalFiles }
    /\ bucket \in BOOLEAN
    /\ gwPrev = NoCall
    /\ gwLast = NoCall
    /\ ensurePrev = NoEnsure
    /\ ensureLast = NoEnsure
    /\ ensureCalls = 0
    /\ mappings = <<>>
    /\ idx = 1
    /\ results = ZeroResults
    /\ attempts = <<>>
    /\ putCount = 0
    /\ walked = FALSE
    /\ call = NoCallYet
    /\ raised = FALSE
    /\ exitCode = -1

Init ==
    /\ InitCommon
    /\ sess = "lib"
    /\ pc = "idle"
    /\ args = NoArgs
    /\ uploader = "ok"

\* uploader.upload_files_batch(file_mappings)
CallBatch ==
    /\ sess = "lib"
    /\ pc = "idle"
    /\ call = NoCallYet
    /\ \E file_mappings \in BatchInputs :
          StartBatch(file_mappings, [op |-> "batch", path |-> Absent, base |-> Absent])
    /\ UNCHANGED <<files, bucket, sess, gwPrev, gwLast, ensurePrev,
                   ensureLast, ensureCalls, walked, args, uploader, exitCode>>

\* uploader.upload_directory(directory_path, base_relative_path)
CallDirectory ==
    /\ sess = "lib"
    /\ pc = "idle"
    /\ call = NoCallYet
    /\ \E directory_path \in DirInputs, base_relative_path \in BaseInputs :
          upload_directory(directory_path, base_relative_path)
    /\ UNCHANGED <<files, bucket, sess, gwPrev, gwLast, ensurePrev,
                   ensureLast, ensureCalls, args, uploader, exitCode>>

\* one call of upload_files_batch or upload_directory on a new uploader (the
\* uploader keeps nothing from one call to the next)
Next ==
    \/ CallBatch
    \/ CallDirectory
    \/ BatchIter
    \/ BatchReturn
    \/ EnvCreateBucket

Spec == Init /\ [][Next]_vars

\* ensure_bucket_exists, called any number of times
NextBucket ==
    \/ EnsureCheck
    \/ EnsureMake
    \/ EnvCreateBucket

SpecBucket == Init /\ [][NextBucket]_vars


-----------------------------------------------------------------------------
(* main.py *)

\* a --files entry is a string; here a sequence of path segments and ":" marks
Colon == ":"

\* file_mapping.split(':', 1): cut at the first ":" only, one part when there is none
split1(m) ==
    IF \E i \in 1..Len(m) : m[i] = Colon
    THEN LET i == CHOOSE k \in 1..Len(m) :
                     m[k] = Colon /\ \A j \in 1..(k - 1) : m[j] # Colon
         IN  << SubSeq(m, 1, i - 1), SubSeq(m, i + 1, Len(m)) >>
    ELSE << m >>

\* the loop of main over args.files: ok is FALSE when an entry has no ":"
\* (ValueError), maps are the entries kept, in order
parse_files(fs, entries) ==
    LET step[i \in 0..Len(entries)] ==
            IF i = 0 THEN [ok |-> TRUE, maps |-> <<>>]
            ELSE LET before == step[i - 1]
                     parts  == split1(entries[i])
                 IN  IF ~before.ok THEN before
                     ELSE IF Len(parts) # 2 THEN [before EXCEPT !.ok = FALSE]
                     ELSE IF ~exists(fs, parts[1]) THEN before
                     ELSE [before EXCEPT !.maps = Append(@, <<parts[1], parts[2]>>)]
    IN  step[Len(entries)]

\* command lines
FileArgs == { <<"g", Colon, "x">>, <<"m", Colon, "y">>, <<"d", Colon, "y">>,
              <<"g", "x">>, <<"g", Colon, "x", Colon, "y">> }

SingleArgs ==
    { [NoArgs EXCEPT !.noargs = FALSE, !.mode = "single", !.file = f, !.relative = r] :
        f \in { Absent, <<"g">>, <<"u">>, <<"d">>, Missing },
        r \in { Absent, <<"x">> } }

BatchArgs ==
    { [NoArgs EXCEPT !.noargs = FALSE, !.mode = "batch", !.files = fl] :
        fl \in SeqsUpTo(FileArgs, MaxFiles) }

DirectoryArgs ==
    { [NoArgs EXCEPT !.noargs = FALSE, !.mode = "directory", !.directory = d,
                     !.base_relative = b] :
        d \in DirInputs \cup { Absent }, b \in BaseInputs }

InitCLI ==
    /\ InitCommon
    /\ sess = "cli"
    /\ pc = "start"
    /\ args \in { NoArgs } \cup SingleArgs \cup BatchArgs \cup DirectoryArgs
    /\ uploader = "none"

\* sys.exit(0 if success else 1)
Exit(success) ==
    /\ pc' = "done"
    /\ exitCode' = IF success THEN 0 ELSE 1

\* the script run without arguments: the usage text, and the interpreter's exit
ShowUsage ==
    /\ pc = "start"
    /\ args.noargs
    /\ pc' = "done"
    /\ exitCode' = 0
    /\ UNCHANGED <<files, bucket, sess, gwPrev, gwLast, ensurePrev,
                   ensureLast, ensureCalls, mappings, idx, results, attempts,
                   putCount, walked, call, raised, args, uploader>>

\* main() up to uploader = MinIOFileUploader(), which may raise
MainConstruct ==
    /\ pc = "start"
    /\ ~args.noargs
    /\ \E built \in BOOLEAN :
          /\ uploader' = IF built THEN "ok" ELSE "failed"
          /\ pc' = IF built THEN "main_ensure" ELSE "main_except"
    /\ UNCHANGED <<files, bucket, sess, gwPrev, gwLast, ensurePrev,
                   ensureLast, ensureCalls, mappings, idx, results, attempts,
                   putCount, walked, call, raised, args, exitCode>>

\* main going on after ensure_bucket_exists whatever it returned
MainEnsuredIgnored ==
    /\ pc = "main_ensured"
    /\ pc' = "main_mode"
    /\ UNCHANGED <<files, bucket, sess, gwPrev, gwLast, ensurePrev,
                   ensureLast, ensureCalls, mappings, idx, results, attempts,
                   putCount, walked, call, raised, args, uploader, exitCode>>

\* if not uploader.ensure_bucket_exists(): return False
MainEnsured ==
    /\ pc = "main_ensured"
    /\ IF ensureLast.ret = "true"
       THEN pc' = "main_mode" /\ UNCHANGED exitCode
       ELSE Exit(FALSE)
    /\ UNCHANGED <<files, bucket, sess, gwPrev, gwLast, ensurePrev,
                   ensureLast, ensureCalls, mappings, idx, results, attempts,
                   putCount, walked, call, raised, args, uploader>>

\* --mode single: the flag checks, upload_single_file, and the exit
MainSingle ==
    /\ pc = "main_mode"
    /\ args.mode = "single"
    /\ IF ~Truthy(args.file) \/ ~Truthy(args.relative) \/ ~exists(files, args.file)
       THEN /\ Exit(FALSE)
            /\ UNCHANGED <<gwPrev, gwLast, mappings, attempts, putCount, call,
                           raised>>
       ELSE \E keyOut \in HelperOutcomes, sizeOut \in HelperOutcomes,
               putOut \in PutOutcomes(bucket) :
               LET item == <<args.file, args.relative>>
                   r    == upload_file(files, args.file, keyOut, sizeOut, putOut)
               IN  /\ call' = [op |-> "single", path |-> args.file, base |-> Absent]
                   /\ mappings' = <<item>>
                   /\ attempts' = << [item |-> item, ret |-> r.ret, put |-> r.put,
                                      thrown |-> r.thrown,
                                      mode |-> FailureMode(files, args.file, keyOut,
                                                           sizeOut, putOut)] >>
                   /\ putCount' = IF r.put THEN 1 ELSE 0
                   /\ IF r.put THEN Log("fput_object", r.gw)
                               ELSE UNCHANGED <<gwPrev, gwLast>>
                   /\ raised' = r.thrown
                   /\ IF r.thrown
                      THEN pc' = "main_except" /\ UNCHANGED exitCode
                      ELSE Exit(r.ret)
    /\ UNCHANGED <<files, bucket, sess, ensurePrev, ensureLast,
                   ensureCalls, idx, results, walked, args, uploader>>

\* --mode batch: the flag check, the parse of --files, upload_files_batch
MainBatch ==
    /\ pc = "main_mode"
    /\ args.mode = "batch"
    /\ LET parsed == parse_files(files, args.files)
       IN  IF ~Truthy(args.files) \/ ~parsed.ok \/ ~Truthy(parsed.maps)
           THEN /\ Exit(FALSE)
                /\ UNCHANGED <<mappings, idx, results, attempts, putCount, call,
                               raised>>
           ELSE /\ StartBatch(parsed.maps,
                              [op |-> "batch", path |-> Absent, base |-> Absent])
                /\ UNCHANGED exitCode
    /\ UNCHANGED <<files, bucket, sess, gwPrev, gwLast, ensurePrev,
                   ensureLast, ensureCalls, walked, args, uploader>>

\* --mode directory: the flag checks, upload_directory
MainDirectory ==
    /\ pc = "main_mode"
    /\ args.mode = "directory"
    /\ IF ~Truthy(args.directory) \/ ~isdir(args.directory)
       THEN /\ Exit(FALSE)
            /\ UNCHANGED <<mappings, idx, results, attempts, putCount, call,
                           raised, walked>>
       ELSE /\ upload_directory(args.directory, args.base_relative)
            /\ UNCHANGED exitCode
    /\ UNCHANGED <<files, bucket, sess, gwPrev, gwLast, ensurePrev,
                   ensureLast, ensureCalls, args, uploader>>

\* upload_multiple_files returning results['success'] > 0
MainReportAnySuccess ==
    /\ pc = "main_report"
    /\ Exit(results.success > 0)
    /\ UNCHANGED <<files, bucket, sess, gwPrev, gwLast, ensurePrev,
                   ensureLast, ensureCalls, mappings, idx, results, attempts,
                   putCount, walked, call, raised, args, uploader>>

\* upload_multiple_files / upload_directory of main.py after the uploader
\* returned: return results['failed'] == 0, and the exit
MainReport ==
    /\ pc = "main_report"
    /\ Exit(results.failed = 0)
    /\ UNCHANGED <<files, bucket, sess, gwPrev, gwLast, ensurePrev,
                   ensureLast, ensureCalls, mappings, idx, results, attempts,
                   putCount, walked, call, raised, args, uploader>>

\* except Exception: return False
MainExcept ==
    /\ pc = "main_except"
    /\ Exit(FALSE)
    /\ UNCHANGED <<files, bucket, sess, gwPrev, gwLast, ensurePrev,
                   ensureLast, ensureCalls, mappings, idx, results, attempts,
                   putCount, walked, call, raised, args, uploader>>

NextCLI ==
    \/ ShowUsage
    \/ MainConstruct
    \/ EnsureCheck
    \/ EnsureMake
    \/ MainEnsured
    \/ MainSingle
    \/ MainBatch
    \/ MainDirectory
    \/ BatchIter
    \/ BatchReturn
    \/ MainReport
    \/ MainExcept
    \/ EnvCreateBucket

SpecCLI == InitCLI /\ [][NextCLI]_vars


-----------------------------------------------------------------------------
(* Properties of upload_files_batch and upload_file *)

\* an upload_files_batch run (called directly or by upload_directory) exists
InBatch == call.op \in {"batch", "directory"}

\* the running upload call has ended
Ended == call.op # "none" /\ pc # "batch"

\* the running upload call has returned its result
Returned == Ended /\ ~raised

\* the items of a sequence of attempts whose upload_file returned ok
ItemsWith(as, ok) ==
    LET pick[i \in 0..Len(as)] ==
            IF i = 0 THEN <<>>
            ELSE IF as[i].ret = ok THEN Append(pick[i - 1], as[i].item)
            ELSE pick[i - 1]
    IN  pick[Len(as)]

\* C1: upload_files_batch attempts upload_file once per item, in input order,
\* each outcome recorded before the next attempt starts; a failed item does
\* not stop the loop, and the call ends only after the last item's attempt.
C1_BatchAttemptsEveryItemInOrder ==
    InBatch =>
        /\ Len(attempts) <= Len(mappings)
        /\ \A i \in 1..Len(attempts) : attempts[i].item = mappings[i]
        /\ pc = "batch" =>
              /\ idx = Len(attempts) + 1
              /\ results.success + results.failed = Len(attempts)
              /\ ENABLED (BatchIter \/ BatchReturn)
        /\ Ended => Len(attempts) = Len(mappings) /\ ~raised

\* a batch of three items returned, the second failed and the third succeeded
C1_Witness ==
    /\ call.op = "batch"
    /\ Returned
    /\ Len(mappings) = 3
    /\ Len(attempts) = 3
    /\ attempts[1].ret /\ ~attempts[2].ret /\ attempts[3].ret

\* C2: at every step of the loop, total is the number of input items,
\* success + failed the number of items processed, failed the length of
\* failed_files, and failed_files the processed items whose upload_file
\* returned False, in input order; at return all items are processed.
C2_ResultsAggregateOutcomes ==
    InBatch =>
        /\ results.total = Len(mappings)
        /\ results.success + results.failed = Len(attempts)
        /\ results.failed = Len(results.failed_files)
        /\ results.failed_files = ItemsWith(attempts, FALSE)
        /\ results.success = Len(ItemsWith(attempts, TRUE))
        /\ Returned => results.success + results.failed = results.total

\* a returned batch with two distinct failed items and a success
C2_Witness ==
    /\ call.op = "batch"
    /\ Returned
    /\ results.failed = 2
    /\ results.success = 1
    /\ results.failed_files[1] # results.failed_files[2]

\* C3: upload_file never raises; it returns False when the local file is
\* missing or unreadable, when the key or size helper raises, and when
\* fput_object raises S3Error or anything else; it returns True only when
\* fput_object was called and completed.
C3_UploadFileNeverThrows ==
    \A i \in 1..Len(attempts) :
        LET a == attempts[i]
        IN  /\ ~a.thrown
            /\ a.mode \in {"invalid", "key", "size", "S3Error", "Error"} => ~a.ret
            /\ a.ret => a.put /\ a.mode = "ok"
            /\ a.mode = "ok" => a.ret

\* a batch met a helper failure, a non-S3 gateway failure and a success
C3_Witness ==
    /\ Returned
    /\ \E i, j, k \in 1..Len(attempts) :
          /\ attempts[i].mode = "key" /\ ~attempts[i].ret
          /\ attempts[j].mode = "Error" /\ ~attempts[j].ret
          /\ attempts[k].mode = "ok" /\ attempts[k].ret

\* C10: fput_object is called at most once per item and never for an item
\* whose local path fails validation, so the calls never outnumber the items
\* processed; an empty batch returns the zeroed result with no gateway call.
C10_AtMostOnePutPerItem ==
    InBatch =>
        /\ putCount = Cardinality({ i \in 1..Len(attempts) : attempts[i].put })
        /\ putCount <= Len(attempts)
        /\ putCount <= Len(mappings)
        /\ \A i \in 1..Len(attempts) :
              ~validate_file_path(files, attempts[i].item[1]) => ~attempts[i].put
        /\ mappings = <<>> =>
              /\ putCount = 0
              /\ gwLast = NoCall
              /\ results = ZeroResults

\* a returned batch with an invalid item and a failed, not repeated, put
C10_Witness ==
    /\ call.op = "batch"
    /\ Returned
    /\ Len(attempts) = 3
    /\ putCount = 2
    /\ \E i \in 1..3 : attempts[i].mode = "invalid"
    /\ \E i \in 1..3 : attempts[i].mode = "S3Error" /\ attempts[i].put

\* upload_files_batch([]) returned
C10_EmptyWitness ==
    call.op = "batch" /\ Returned /\ mappings = <<>> /\ results = ZeroResults


-----------------------------------------------------------------------------
(* Properties of upload_directory *)

\* the regular files below a directory, at any depth
FilesUnder(root) == { f \in files : IsPrefix(root, f) /\ f # root }

\* C8: for a directory with N regular files below it at any depth,
\* upload_directory builds N mappings, one per file and each file once, whose
\* relative path is the file's path below the root, after base_relative_path
\* when one is given; N uploads are attempted and total is N.
C8_DirectoryEnumeratesEveryFile ==
    (call.op = "directory" /\ isdir(call.path)) =>
        LET under == FilesUnder(call.path)
            N     == Cardinality(under)
        IN  /\ Len(mappings) = N
            /\ { mappings[i][1] : i \in 1..Len(mappings) } = under
            /\ \A i \in 1..Len(mappings) :
                  LET local == mappings[i][1]
                      rel   == mappings[i][2]
                  IN  /\ IsPrefix(call.base, rel)
                      /\ local = call.path \o SubSeq(rel, Len(call.base) + 1, Len(rel))
            /\ results.total = N
            /\ Returned =>
                  /\ Len(attempts) = N
                  /\ { attempts[i].item[1] : i \in 1..Len(attempts) } = under

\* upload_directory returned for a tree of three files on three levels, with
\* a base relative path
C8_Witness ==
    /\ call.op = "directory"
    /\ call.path = <<"d">>
    /\ call.base = <<"b">>
    /\ Returned
    /\ Len(attempts) = 3
    /\ results.total = 3

\* C9: upload_directory on a path that is not a directory returns the zeroed
\* result at once: it does not raise, does not enumerate, attempts no upload
\* and calls the gateway not at all.
C9_NonDirectoryReturnsZero ==
    (call.op = "directory" /\ ~isdir(call.path)) =>
        /\ Returned
        /\ results = ZeroResults
        /\ ~walked
        /\ attempts = <<>>
        /\ putCount = 0
        /\ sess = "lib" => gwLast = NoCall

\* upload_directory returned for a regular file
C9_Witness ==
    /\ call.op = "directory"
    /\ call.path = <<"g">>
    /\ call.path \in files
    /\ Returned
    /\ results = ZeroResults


-----------------------------------------------------------------------------
(* Properties of ensure_bucket_exists *)

\* no ensure_bucket_exists call is in progress
EnsureIdle == pc # "ensure_make"

\* C4: ensure_bucket_exists never raises; when bucket_exists or make_bucket
\* fails, whatever the failure, it returns False; it returns True only when
\* the bucket exists afterwards.
C4_EnsureReturnsFalseOnAnyFailure ==
    /\ ensureLast.ret # "raised"
    /\ (EnsureIdle /\ gwLast.res \in {"S3Error", "Error"}) => ensureLast.ret = "false"
    /\ ensureLast.ret = "true" => bucket

\* the part of C4 the code keeps: an S3Error of either call gives False, and
\* True is returned only when the bucket exists afterwards
C4_S3ErrorGivesFalse ==
    /\ (EnsureIdle /\ gwLast.res = "S3Error") => ensureLast.ret = "false"
    /\ ensureLast.ret = "true" => bucket
    /\ (EnsureIdle /\ ensureLast.ret = "raised") => gwLast.res = "Error"

\* C6: make_bucket is called only right after a bucket_exists that answered
\* False; a call that follows one that returned True makes the bucket_exists
\* check and nothing else.
C6_MakeBucketOnlyAfterAbsent ==
    /\ gwLast.op = "make_bucket" => gwPrev = [op |-> "bucket_exists", res |-> "false"]
    /\ pc = "ensure_make" => gwLast = [op |-> "bucket_exists", res |-> "false"]
    /\ ensureLast.ret = "true" => pc # "ensure_make"
    /\ (ensurePrev.ret = "true" /\ ensureLast.ret # "none") =>
          /\ ~ensureLast.made
          /\ EnsureIdle => gwLast.op = "bucket_exists"

\* a first call created the bucket and returned True, a second call found it
C6_Witness ==
    /\ ensurePrev = [ret |-> "true", made |-> TRUE]
    /\ ensureLast = [ret |-> "true", made |-> FALSE]
    /\ gwLast = [op |-> "bucket_exists", res |-> "true"]
    /\ EnsureIdle


-----------------------------------------------------------------------------
(* Properties of a run of main.py *)

Done == pc = "done"

\* the run entered main(): some argument was given
RanMain == ~args.noargs

HasColon(m) == \E i \in 1..Len(m) : m[i] = Colon

\* the local path a well formed --files entry names: what precedes its first ":"
EntryLocal(m) ==
    CHOOSE p \in { SubSeq(m, 1, k) : k \in 0..Len(m) } :
        /\ ~HasColon(p)
        /\ Len(p) < Len(m)
        /\ m[Len(p) + 1] = Colon

\* the relative path of a well formed --files entry: what follows its first ":"
EntryRelative(m) == SubSeq(m, Len(EntryLocal(m)) + 2, Len(m))

Entries == { args.files[i] : i \in 1..Len(args.files) }

\* a flag the mode requires is absent
FlagsAbsent ==
    CASE args.mode = "single"    -> args.file = Absent \/ args.relative = Absent
      [] args.mode = "batch"     -> args.files = Absent
      [] args.mode = "directory" -> args.directory = Absent

\* a --files entry lacks the ":" between its two paths
Malformed == args.mode = "batch" /\ \E m \in Entries : ~HasColon(m)

\* the file of single mode or the directory of directory mode is missing
TargetMissing ==
    \/ args.mode = "single" /\ args.file # Absent /\ ~exists(files, args.file)
    \/ args.mode = "directory" /\ args.directory # Absent /\ ~isdir(args.directory)

\* some / every --files entry names a local file that does not exist
EntryMissing(m) == HasColon(m) /\ ~exists(files, EntryLocal(m))
SomeEntryMissing == args.mode = "batch" /\ \E m \in Entries : EntryMissing(m)
EveryEntryMissing ==
    args.mode = "batch" /\ Entries # {} /\ \A m \in Entries : EntryMissing(m)

\* the uploader could not be built, or the bucket check did not return True
BucketFailed == uploader # "ok" \/ ensureLast.ret # "true"

\* an upload that was attempted failed
ItemFailed == \E i \in 1..Len(attempts) : ~attempts[i].ret

\* the --files entries main keeps, in order: those whose local path exists
RECURSIVE KeptEntries(_)
KeptEntries(fl) ==
    IF fl = <<>> THEN <<>>
    ELSE IF EntryMissing(Head(fl)) THEN KeptEntries(Tail(fl))
    ELSE << <<EntryLocal(Head(fl)), EntryRelative(Head(fl))>> >> \o KeptEntries(Tail(fl))

\* C5 as stated: a run of main ends with 0 or 1, with 1 whenever an item
\* failed, the bucket check failed, a requested file or directory is
\* missing (a --files entry included), a required flag is absent, or a
\* mapping is malformed.
C5_ExitOneOnAnyMissingEntry ==
    (Done /\ RanMain) =>
        /\ exitCode \in {0, 1}
        /\ (BucketFailed \/ FlagsAbsent \/ Malformed \/ TargetMissing
              \/ SomeEntryMissing \/ ItemFailed) => exitCode = 1

\* C5 amended: a run without arguments ends with 0; a run of main ends with
\* 1 exactly when an attempted upload failed, the bucket check failed, a
\* required flag is absent, a mapping is malformed, the file or directory
\* is missing, or no --files entry names an existing file; --files entries
\* naming a missing file are skipped and the others are uploaded.
C5_ExitOneOnFailureOfWhatWasAttempted ==
    Done =>
        /\ exitCode \in {0, 1}
        /\ ~RanMain => exitCode = 0
        /\ RanMain =>
              /\ exitCode = 1 <=>
                    (BucketFailed \/ FlagsAbsent \/ Malformed \/ TargetMissing
                       \/ EveryEntryMissing \/ ItemFailed)
              /\ (exitCode = 0 /\ args.mode = "batch") =>
                    /\ mappings = KeptEntries(args.files)
                    /\ Len(attempts) = Len(mappings)

\* a batch run that skipped a missing entry, uploaded another, and ended with 0
C5_Witness ==
    /\ Done
    /\ args.mode = "batch"
    /\ SomeEntryMissing
    /\ Len(args.files) = 2
    /\ Len(attempts) = 1
    /\ attempts[1].ret
    /\ exitCode = 0

\* C7 as stated: every run of main calls ensure_bucket_exists exactly once,
\* before any fput_object; when it returns False no fput_object follows and
\* the run ends with 1.
C7_EnsureCalledExactlyOnce ==
    /\ ensureCalls <= 1
    /\ (Done /\ RanMain) => ensureCalls = 1
    /\ putCount > 0 => ensureCalls = 1 /\ ensureLast.ret = "true"
    /\ (Done /\ ensureLast.ret = "false") => putCount = 0 /\ exitCode = 1

\* C7 amended: a run of main whose uploader was constructed calls
\* ensure_bucket_exists exactly once, before any fput_object; when it does
\* not return True no fput_object follows and the run ends with 1; when the
\* constructor raises, neither is called and the run ends with 1.
C7_EnsureOnceWhenConstructed ==
    /\ ensureCalls <= 1
    /\ ensureCalls = 1 => uploader = "ok"
    /\ (Done /\ uploader = "ok") => ensureCalls = 1
    /\ putCount > 0 => ensureCalls = 1 /\ ensureLast.ret = "true"
    /\ (Done /\ RanMain /\ ensureLast.ret # "true") => putCount = 0 /\ exitCode = 1
    /\ uploader = "failed" => ensureCalls = 0 /\ putCount = 0

\* a run whose bucket check returned False ended, and one that uploaded
C7_Witness ==
    /\ Done
    /\ uploader = "ok"
    /\ ensureCalls = 1
    /\ ensureLast = [ret |-> "false", made |-> TRUE]
    /\ putCount = 0
    /\ exitCode = 1

\* a run uploaded two files after its one bucket check
C7_UploadWitness ==
    Done /\ ensureCalls = 1 /\ putCount = 2 /\ exitCode = 0


====
